---- MODULE Spec2Model ----
(***************************************************************************)
(* A model of src/src/exchange.rs: the Exchange identity and its text      *)
(* forms, the credential bundle, the client factory, and the order and     *)
(* query operations of the ExchangeClient contract.                        *)
(*                                                                         *)
(* Text is a sequence of one-character strings, so that letter case is     *)
(* something the model computes with.  A Result is a pair <<"Ok", v>> or   *)
(* <<"Err", e>>; an Option is <<>> (None) or <<v>> (Some(v)).              *)
(***************************************************************************)
EXTENDS Naturals, Sequences, FiniteSets

VARIABLES
    input,          \* identity: the text last handed to from_str or written by Display
    parsed,         \* identity: the Result of from_str on input, or Unparsed
    displayed,      \* identity: the Exchange last rendered by Display, as an Option
    bundles,        \* factory: the caller's credential bundles, slot -> Option
    last,           \* factory: what the last operation on credentials did
    book,           \* orders: the exchange's orders, indexed by order id
    sent,           \* orders: what the caller submitted for each order id
    touched,        \* orders: the ids filled or cancelled since they were placed
    closedSeen,     \* orders: how often order_status has reported each id closed (0, 1, more)
    status,         \* orders: the last contract call on orders and its Result
    support,        \* queries: whether the adapter can list deposits
    markets,        \* queries: the coins the exchange has a lending market for
    deposits,       \* queries: the deposits the exchange has seen
    lending,        \* queries: the lending state of each coin with a market
    query           \* queries: the last query and its Result

identityVars == <<input, parsed, displayed>>
factoryVars == <<bundles, last>>
orderVars == <<book, sent, touched, closedSeen, status>>
queryVars == <<support, markets, deposits, lending, query>>
vars == <<input, parsed, displayed, bundles, last,
          book, sent, touched, closedSeen, status,
          support, markets, deposits, lending, query>>

Ok(v) == <<"Ok", v>>
Err(e) == <<"Err", e>>
None == <<>>
Some(v) == <<v>>

----------------------------------------------------------------------------
(* Exchange identity                                                       *)

Exchange == {"Binance", "BinanceUs", "Coinbase", "Ftx", "FtxUs", "Kraken"}

\* Debug of a fieldless enum writes the variant's name.
DebugName(e) ==
    CASE e = "Binance" -> <<"B", "i", "n", "a", "n", "c", "e">>
      [] e = "BinanceUs" -> <<"B", "i", "n", "a", "n", "c", "e", "U", "s">>
      [] e = "Coinbase" -> <<"C", "o", "i", "n", "b", "a", "s", "e">>
      [] e = "Ftx" -> <<"F", "t", "x">>
      [] e = "FtxUs" -> <<"F", "t", "x", "U", "s">>
      [] e = "Kraken" -> <<"K", "r", "a", "k", "e", "n">>

\* A Display that writes the name in lower case.
DisplayLower(e) ==
    CASE e = "Binance" -> <<"b", "i", "n", "a", "n", "c", "e">>
      [] e = "BinanceUs" -> <<"b", "i", "n", "a", "n", "c", "e", "u", "s">>
      [] e = "Coinbase" -> <<"c", "o", "i", "n", "b", "a", "s", "e">>
      [] e = "Ftx" -> <<"f", "t", "x">>
      [] e = "FtxUs" -> <<"f", "t", "x", "u", "s">>
      [] e = "Kraken" -> <<"k", "r", "a", "k", "e", "n">>

\* write!(f, "{self:?}")
Display(e) == DebugName(e)

ParseExchangeError == {"InvalidExchange"}

LowerAlpha ==
    <<"a", "b", "c", "d", "e", "f", "g", "h", "i", "j", "k", "l", "m",
      "n", "o", "p", "q", "r", "s", "t", "u", "v", "w", "x", "y", "z">>
UpperAlpha ==
    <<"A", "B", "C", "D", "E", "F", "G", "H", "I", "J", "K", "L", "M",
      "N", "O", "P", "Q", "R", "S", "T", "U", "V", "W", "X", "Y", "Z">>

ToLowerChar(c) ==
    IF \E i \in 1..26 : UpperAlpha[i] = c
    THEN LowerAlpha[CHOOSE i \in 1..26 : UpperAlpha[i] = c]
    ELSE c
ToUpperChar(c) ==
    IF \E i \in 1..26 : LowerAlpha[i] = c
    THEN UpperAlpha[CHOOSE i \in 1..26 : LowerAlpha[i] = c]
    ELSE c
ToLower(s) == [i \in 1..Len(s) |-> ToLowerChar(s[i])]
ToUpper(s) == [i \in 1..Len(s) |-> ToUpperChar(s[i])]

\* from_str falling through to a default variant instead of an error.
from_str_default(s) ==
    CASE s \in {<<"B", "i", "n", "a", "n", "c", "e">>,
                <<"b", "i", "n", "a", "n", "c", "e">>} -> Ok("Binance")
      [] s \in {<<"B", "i", "n", "a", "n", "c", "e", "U", "s">>,
                <<"b", "i", "n", "a", "n", "c", "e", "u", "s">>} -> Ok("BinanceUs")
      [] s \in {<<"C", "o", "i", "n", "b", "a", "s", "e">>,
                <<"c", "o", "i", "n", "b", "a", "s", "e">>} -> Ok("Coinbase")
      [] s \in {<<"F", "t", "x">>, <<"f", "t", "x">>} -> Ok("Ftx")
      [] s \in {<<"F", "t", "x", "U", "s">>,
                <<"f", "t", "x", "u", "s">>} -> Ok("FtxUs")
      [] s \in {<<"K", "r", "a", "k", "e", "n">>,
                <<"k", "r", "a", "k", "e", "n">>} -> Ok("Kraken")
      [] OTHER -> Ok("Binance")

\* from_str matching on the lower-cased text.
from_str_nocase(s) ==
    CASE ToLower(s) = <<"b", "i", "n", "a", "n", "c", "e">> -> Ok("Binance")
      [] ToLower(s) = <<"b", "i", "n", "a", "n", "c", "e", "u", "s">> -> Ok("BinanceUs")
      [] ToLower(s) = <<"c", "o", "i", "n", "b", "a", "s", "e">> -> Ok("Coinbase")
      [] ToLower(s) = <<"f", "t", "x">> -> Ok("Ftx")
      [] ToLower(s) = <<"f", "t", "x", "u", "s">> -> Ok("FtxUs")
      [] ToLower(s) = <<"k", "r", "a", "k", "e", "n">> -> Ok("Kraken")
      [] OTHER -> Err("InvalidExchange")

\* match s { "Binance" | "binance" => Ok(Exchange::Binance), ..., _ => Err(..) }
from_str(s) ==
    CASE s \in {<<"B", "i", "n", "a", "n", "c", "e">>,
                <<"b", "i", "n", "a", "n", "c", "e">>} -> Ok("Binance")
      [] s \in {<<"B", "i", "n", "a", "n", "c", "e", "U", "s">>,
                <<"b", "i", "n", "a", "n", "c", "e", "u", "s">>} -> Ok("BinanceUs")
      [] s \in {<<"C", "o", "i", "n", "b", "a", "s", "e">>,
                <<"c", "o", "i", "n", "b", "a", "s", "e">>} -> Ok("Coinbase")
      [] s \in {<<"F", "t", "x">>, <<"f", "t", "x">>} -> Ok("Ftx")
      [] s \in {<<"F", "t", "x", "U", "s">>,
                <<"f", "t", "x", "u", "s">>} -> Ok("FtxUs")
      [] s \in {<<"K", "r", "a", "k", "e", "n">>,
                <<"k", "r", "a", "k", "e", "n">>} -> Ok("Kraken")
      [] OTHER -> Err("InvalidExchange")

\* The texts handed to from_str: every casing of every spelling, the accepted
\* spellings with up to MaxPad blanks before and after, every prefix of a
\* name and every name with up to MaxExtra letters appended.
MaxPad == 1
MaxExtra == 1

RECURSIVE Casings(_)
Casings(w) ==
    IF w = <<>> THEN {<<>>}
    ELSE {<<c>> \o r : c \in {ToLowerChar(Head(w)), ToUpperChar(Head(w))},
                       r \in Casings(Tail(w))}

RECURSIVE Repeat(_, _)
Repeat(c, n) == IF n = 0 THEN <<>> ELSE <<c>> \o Repeat(c, n - 1)

Padded(w) == {Repeat(" ", i) \o w \o Repeat(" ", j) : i \in 0..MaxPad, j \in 0..MaxPad}
Prefixes(w) == {SubSeq(w, 1, n) : n \in 0..Len(w)}
Extended(w) == {w \o Repeat(c, n) : c \in {"s", "X", "-"}, n \in 0..MaxExtra}

Inputs ==
    UNION {Casings(DebugName(e)) : e \in Exchange}
    \cup UNION {Padded(DebugName(e)) \cup Padded(ToLower(DebugName(e))) : e \in Exchange}
    \cup UNION {Prefixes(DebugName(e)) \cup Prefixes(ToLower(DebugName(e))) : e \in Exchange}
    \cup UNION {Extended(DebugName(e)) \cup Extended(ToLower(DebugName(e))) : e \in Exchange}

Unparsed == <<"Unparsed", "">>

\* s.parse::<Exchange>() on a text the caller supplies.
ParseInput(s) ==
    /\ input' = s
    /\ parsed' = from_str(s)
    /\ displayed' = None
    /\ UNCHANGED <<factoryVars, orderVars, queryVars>>

\* exchange.to_string()
DisplayExchange(e) ==
    /\ input' = Display(e)
    /\ parsed' = Unparsed
    /\ displayed' = Some(e)
    /\ UNCHANGED <<factoryVars, orderVars, queryVars>>

\* Parsing the text Display wrote.
ParseDisplayed ==
    /\ displayed # None
    /\ parsed = Unparsed
    /\ parsed' = from_str(input)
    /\ UNCHANGED <<input, displayed>>
    /\ UNCHANGED <<factoryVars, orderVars, queryVars>>

IdentityNext ==
    \/ \E s \in Inputs : ParseInput(s)
    \/ \E e \in Exchange : DisplayExchange(e)
    \/ ParseDisplayed

IdentityInit ==
    /\ input = <<>>
    /\ parsed = Unparsed
    /\ displayed = None
    /\ bundles = <<>>
    /\ last = <<>>
    /\ book = <<>>
    /\ sent = <<>>
    /\ touched = {}
    /\ closedSeen = {}
    /\ status = <<>>
    /\ support = FALSE
    /\ markets = {}
    /\ deposits = <<>>
    /\ lending = <<>>
    /\ query = <<>>

SpecIdentity == IdentityInit /\ [][IdentityNext]_vars

----------------------------------------------------------------------------
(* Credential bundle and client factory                                    *)

ApiKeys == {"key1", "key2"}
Secrets == {"secret1", "secret2"}
Subaccounts == {None, Some(""), Some("sub1")}

\* pub struct ExchangeCredentials { api_key, secret, subaccount: Option<String> }
ExchangeCredentials == [api_key : ApiKeys, secret : Secrets, subaccount : Subaccounts]

\* Option<String> == Option<String>
OptionEq(x, y) ==
    IF Len(x) = 0 \/ Len(y) = 0 THEN Len(x) = Len(y) ELSE x[1] = y[1]

\* An equality that leaves the optional subaccount out.
CredsEqNoSubaccount(a, b) ==
    /\ a.api_key = b.api_key
    /\ a.secret = b.secret

\* #[derive(PartialEq, Eq)]: the fields compared in order.
CredsEq(a, b) ==
    /\ a.api_key = b.api_key
    /\ a.secret = b.secret
    /\ OptionEq(a.subaccount, b.subaccount)

\* The adapter constructors the factory can reach.
Ctor(m, f) == [module |-> m, func |-> f]
Ctors ==
    {Ctor("binance_exchange", "new"), Ctor("binance_exchange", "new_us"),
     Ctor("coinbase_exchange", "new"),
     Ctor("ftx_exchange", "new"), Ctor("ftx_exchange", "new_us"),
     Ctor("kraken_exchange", "new")}

\* The match with the BinanceUs arm calling the plain Binance constructor.
DispatchCtorNoUs(exchange) ==
    CASE exchange = "Binance" -> Ctor("binance_exchange", "new")
      [] exchange = "BinanceUs" -> Ctor("binance_exchange", "new")
      [] exchange = "Coinbase" -> Ctor("coinbase_exchange", "new")
      [] exchange = "Ftx" -> Ctor("ftx_exchange", "new")
      [] exchange = "FtxUs" -> Ctor("ftx_exchange", "new_us")
      [] exchange = "Kraken" -> Ctor("kraken_exchange", "new")

\* match exchange { Exchange::Binance => binance_exchange::new(..), ... }
DispatchCtor(exchange) ==
    CASE exchange = "Binance" -> Ctor("binance_exchange", "new")
      [] exchange = "BinanceUs" -> Ctor("binance_exchange", "new_us")
      [] exchange = "Coinbase" -> Ctor("coinbase_exchange", "new")
      [] exchange = "Ftx" -> Ctor("ftx_exchange", "new")
      [] exchange = "FtxUs" -> Ctor("ftx_exchange", "new_us")
      [] exchange = "Kraken" -> Ctor("kraken_exchange", "new")

\* An adapter constructor is a black box: it takes the bundle by value and
\* either returns a client holding it or an error of its own.  Which
\* constructors fail is the environment's choice, `failing`.
AdapterNew(ctor, creds, failing) ==
    IF ctor \in failing
    THEN Err([from |-> ctor])
    ELSE Ok([ctor |-> ctor, creds |-> creds])

Call(ctor, creds) == [ctor |-> ctor, creds |-> creds]

\* What a factory call did: the constructor calls it made, in order, and the
\* Result it returned.
Outcome(calls, result) == [calls |-> calls, result |-> result]

\* A factory that never fails: on a constructor error it still hands out a
\* client, leaving the error to the first method call.
exchange_client_new_lazy(exchange, creds, failing) ==
    LET ctor == DispatchCtor(exchange)
    IN  Outcome(<<Call(ctor, creds)>>, Ok([ctor |-> ctor, creds |-> creds]))

\* A factory that falls back to the non-US constructor when the US one fails.
exchange_client_new_fallback(exchange, creds, failing) ==
    LET ctor == DispatchCtor(exchange)
        r == AdapterNew(ctor, creds, failing)
        plain == Ctor(ctor.module, "new")
    IN  IF r[1] = "Err" /\ ctor.func = "new_us"
        THEN Outcome(<<Call(ctor, creds), Call(plain, creds)>>,
                     AdapterNew(plain, creds, failing))
        ELSE Outcome(<<Call(ctor, creds)>>, r)

\* let exchange_client = match exchange { X => Box::new(ctor(exchange_credentials)?) };
\* Ok(exchange_client)
\* `?` returns the constructor's error at once; otherwise the client is boxed
\* and returned.
exchange_client_new(exchange, creds, failing) ==
    LET ctor == DispatchCtor(exchange)
        r == AdapterNew(ctor, creds, failing)
    IN  Outcome(<<Call(ctor, creds)>>, r)

\* The caller holds up to two bundles, one per slot.
Slots == {1, 2}

\* At most MaxFailing adapter constructors are failing at a time.
MaxFailing == 1
FailingSets == {F \in SUBSET Ctors : Cardinality(F) <= MaxFailing}

NoOutcome == Outcome(<<>>, <<"None", "">>)
Idle ==
    [op |-> "idle", eq |-> FALSE, exchange |-> "", given |-> None,
     failing |-> {}, outcome |-> NoOutcome]

FactoryInit ==
    /\ bundles = [s \in Slots |-> None]
    /\ last = Idle
    /\ input = <<>>
    /\ parsed = Unparsed
    /\ displayed = None
    /\ book = <<>>
    /\ sent = <<>>
    /\ touched = {}
    /\ closedSeen = {}
    /\ status = <<>>
    /\ support = FALSE
    /\ markets = {}
    /\ deposits = <<>>
    /\ lending = <<>>
    /\ query = <<>>

\* ExchangeCredentials { api_key, secret, subaccount }
NewCredentials(slot, c) ==
    /\ bundles[slot] = None
    /\ bundles' = [bundles EXCEPT ![slot] = Some(c)]
    /\ last' = Idle
    /\ UNCHANGED <<identityVars, orderVars, queryVars>>

\* a == b on two bundles the caller holds
CompareCredentials ==
    /\ \A s \in Slots : bundles[s] # None
    /\ last' = [Idle EXCEPT !.op = "eq", !.eq = CredsEq(bundles[1][1], bundles[2][1])]
    /\ UNCHANGED bundles
    /\ UNCHANGED <<identityVars, orderVars, queryVars>>

\* exchange_client_new(exchange, bundle): the bundle is moved into the call.
ExchangeClientNew(slot, exchange, failing) ==
    /\ bundles[slot] # None
    /\ bundles' = [bundles EXCEPT ![slot] = None]
    /\ last' = [Idle EXCEPT !.op = "new", !.exchange = exchange,
                            !.given = bundles[slot], !.failing = failing,
                            !.outcome = exchange_client_new(exchange, bundles[slot][1], failing)]
    /\ UNCHANGED <<identityVars, orderVars, queryVars>>

FactoryNext ==
    \/ \E slot \in Slots, c \in ExchangeCredentials : NewCredentials(slot, c)
    \/ CompareCredentials
    \/ \E slot \in Slots, e \in Exchange, F \in FailingSets : ExchangeClientNew(slot, e, F)

SpecFactory == FactoryInit /\ [][FactoryNext]_vars

\* The whole of the core that a bundle can meet: the credential and factory
\* operations next to parsing and display, with the adapter constructors
\* either all succeeding or all failing.
CoreNext ==
    \/ \E slot \in Slots, c \in ExchangeCredentials : NewCredentials(slot, c)
    \/ CompareCredentials
    \/ \E slot \in Slots, e \in Exchange, F \in {{}, Ctors} : ExchangeClientNew(slot, e, F)
    \/ \E e \in Exchange : ParseInput(ToLower(DebugName(e)))
    \/ \E e \in Exchange : DisplayExchange(e)
    \/ ParseDisplayed

SpecCore == FactoryInit /\ [][CoreNext]_vars

----------------------------------------------------------------------------
(* Orders: place_order, cancel_order, order_status and the exchange's      *)
(* fills.  The adapters that implement these calls are not part of         *)
(* exchange.rs, which only declares them; their behaviour is taken from    *)
(* the contract's description.  Amounts are whole units; the last_update   *)
(* and fee fields of OrderStatus take no part in the order's lifecycle and *)
(* are left out.                                                           *)

\* pub enum OrderSide { Buy, Sell }
OrderSide == {"Buy", "Sell"}

\* The orders are all for one trading pair, spelled as the adapter prefers.
Pairs == {"SOL/USD"}
Prices == {10, 20}

\* At most MaxOrders orders are placed, each for 1..MaxAmount units.
MaxOrders == 1
MaxAmount == 2

\* pub struct OrderStatus { open, side, price, amount, filled_amount, .. }
OrderStatus(open, side, price, amount, filled) ==
    [open |-> open, side |-> side, price |-> price, amount |-> amount,
     filled_amount |-> filled]

\* An order that is placed as a buy whatever side was asked for.
PlacedAsBuy(side, price, amount) == OrderStatus(TRUE, "Buy", price, amount, 0)

\* A freshly placed order: open, nothing filled, as submitted.
Placed(side, price, amount) == OrderStatus(TRUE, side, price, amount, 0)

\* A fill accepted on a closed order too.
CanFillClosed(o, qty) == qty >= 1 /\ qty <= o.amount - o.filled_amount

\* The exchange fills only an open order, and only up to what is left of it.
CanFill(o, qty) == o.open /\ qty >= 1 /\ qty <= o.amount - o.filled_amount

\* A fill adds to the filled amount and closes the order once it is full.
Filled(o, qty) ==
    [o EXCEPT !.filled_amount = o.filled_amount + qty,
              !.open = o.filled_amount + qty < o.amount]

\* A cancellation closes an open order and leaves a closed one as it is.
Cancelled(o) == [o EXCEPT !.open = FALSE]

OrderIds == 1..MaxOrders
Known(pair, id) == id \in 1..Len(book) /\ book[id].pair = pair

NoCall == [op |-> "none", pair |-> "", id |-> 0, result |-> <<"None", "">>]
CallOf(op, pair, id, result) == [op |-> op, pair |-> pair, id |-> id, result |-> result]

OrdersInit ==
    /\ book = <<>>
    /\ sent = <<>>
    /\ touched = {}
    /\ closedSeen = [id \in OrderIds |-> 0]
    /\ status = NoCall
    /\ input = <<>>
    /\ parsed = Unparsed
    /\ displayed = None
    /\ bundles = <<>>
    /\ last = <<>>
    /\ support = FALSE
    /\ markets = {}
    /\ deposits = <<>>
    /\ lending = <<>>
    /\ query = <<>>

\* place_order(pair, side, price, amount) -> Result<OrderId>
PlaceOrder(pair, side, price, amount, fail) ==
    /\ Len(book) < MaxOrders
    /\ IF fail
       THEN /\ status' = CallOf("place_order", pair, 0, Err("backend"))
            /\ UNCHANGED <<book, sent>>
       ELSE /\ book' = Append(book, [pair |-> pair, order |-> Placed(side, price, amount)])
            /\ sent' = Append(sent, [pair |-> pair, side |-> side, price |-> price,
                                     amount |-> amount])
            /\ status' = CallOf("place_order", pair, Len(book) + 1, Ok(Len(book) + 1))
    /\ UNCHANGED <<touched, closedSeen>>
    /\ UNCHANGED <<identityVars, factoryVars, queryVars>>

\* The exchange matches qty units of order id.
ExchangeFill(id, qty) ==
    /\ id \in 1..Len(book)
    /\ CanFill(book[id].order, qty)
    /\ book' = [book EXCEPT ![id].order = Filled(@, qty)]
    /\ touched' = touched \cup {id}
    /\ UNCHANGED <<sent, closedSeen, status>>
    /\ UNCHANGED <<identityVars, factoryVars, queryVars>>

\* cancel_order(pair, order_id) -> Result<()>
CancelOrder(pair, id, fail) ==
    /\ IF fail
       THEN /\ status' = CallOf("cancel_order", pair, id, Err("backend"))
            /\ UNCHANGED <<book, touched>>
       ELSE IF ~Known(pair, id)
       THEN /\ status' = CallOf("cancel_order", pair, id, Err("unknown order"))
            /\ UNCHANGED <<book, touched>>
       ELSE /\ status' = CallOf("cancel_order", pair, id, Ok(""))
            /\ book' = [book EXCEPT ![id].order = Cancelled(@)]
            /\ touched' = touched \cup {id}
    /\ UNCHANGED <<sent, closedSeen>>
    /\ UNCHANGED <<identityVars, factoryVars, queryVars>>

\* order_status(pair, order_id) -> Result<OrderStatus>
GetOrderStatus(pair, id, fail) ==
    /\ IF fail
       THEN /\ status' = CallOf("order_status", pair, id, Err("backend"))
            /\ UNCHANGED closedSeen
       ELSE IF ~Known(pair, id)
       THEN /\ status' = CallOf("order_status", pair, id, Err("unknown order"))
            /\ UNCHANGED closedSeen
       ELSE /\ status' = CallOf("order_status", pair, id, Ok(book[id].order))
            /\ closedSeen' = IF book[id].order.open THEN closedSeen
                             ELSE [closedSeen EXCEPT ![id] = IF @ = 0 THEN 1 ELSE 2]
    /\ UNCHANGED <<book, sent, touched>>
    /\ UNCHANGED <<identityVars, factoryVars, queryVars>>

OrdersNext ==
    \/ \E pair \in Pairs, side \in OrderSide, price \in Prices,
          amount \in 1..MaxAmount, fail \in BOOLEAN :
            PlaceOrder(pair, side, price, amount, fail)
    \/ \E id \in OrderIds, qty \in 1..MaxAmount : ExchangeFill(id, qty)
    \/ \E pair \in Pairs, id \in OrderIds, fail \in BOOLEAN : CancelOrder(pair, id, fail)
    \/ \E pair \in Pairs, id \in OrderIds, fail \in BOOLEAN : GetOrderStatus(pair, id, fail)

SpecOrders == OrdersInit /\ [][OrdersNext]_vars

----------------------------------------------------------------------------
(* Optional-capability queries: recent_deposits and get_lending_info.      *)
(* exchange.rs declares their Result<Option<..>> types; what an adapter    *)
(* answers is taken from the contract's description.                       *)

Coins == {"SOL", "USDC"}

\* The exchange has seen at most MaxDeposits deposits; a coin has at most
\* MaxLendable units to lend.
MaxDeposits == 2
MaxLendable == 1

\* pub struct DepositInfo { tx_id, amount }
DepositInfo(tx_id, amount) == [tx_id |-> tx_id, amount |-> amount]

\* pub struct LendingInfo { lendable, offered, locked, estimate_rate, previous_rate }
LendingInfo(lendable, offered) ==
    [lendable |-> lendable, offered |-> offered, locked |-> 0,
     estimate_rate |-> 0, previous_rate |-> 0]

\* An adapter without deposit history answering with an empty list.
recent_deposits_empty(supported, seen, fail) ==
    IF ~supported THEN Ok(Some(<<>>))
    ELSE IF fail THEN Err("backend")
    ELSE Ok(Some(seen))

\* recent_deposits() -> Result<Option<Vec<DepositInfo>>>: absent when the
\* adapter has no deposit history, else the list (empty when none was found).
recent_deposits(supported, seen, fail) ==
    IF ~supported THEN Ok(None)
    ELSE IF fail THEN Err("backend")
    ELSE Ok(Some(seen))

\* get_lending_info(coin) -> Result<Option<LendingInfo>>: absent when the
\* exchange has no lending market for the coin.
get_lending_info(coin, fail) ==
    IF fail THEN Err("backend")
    ELSE IF coin \notin markets THEN Ok(None)
    ELSE Ok(Some(lending[coin]))

NoQuery == [op |-> "none", coin |-> "", failed |-> FALSE, result |-> <<"None", "">>]
QueryOf(op, coin, failed, result) ==
    [op |-> op, coin |-> coin, failed |-> failed, result |-> result]

\* An adapter of either kind, on an exchange with any set of lending markets.
QueriesInit ==
    /\ support \in BOOLEAN
    /\ markets \in SUBSET Coins
    /\ deposits = <<>>
    /\ lending \in [markets -> {LendingInfo(l, 0) : l \in 0..MaxLendable}]
    /\ query = NoQuery
    /\ input = <<>>
    /\ parsed = Unparsed
    /\ displayed = None
    /\ bundles = <<>>
    /\ last = <<>>
    /\ book = <<>>
    /\ sent = <<>>
    /\ touched = {}
    /\ closedSeen = {}
    /\ status = <<>>

\* A deposit arrives at the exchange.
ExchangeDeposit(amount) ==
    /\ Len(deposits) < MaxDeposits
    /\ deposits' = Append(deposits, DepositInfo(Len(deposits) + 1, amount))
    /\ UNCHANGED <<support, markets, lending, query>>
    /\ UNCHANGED <<identityVars, factoryVars, orderVars>>

RecentDeposits(fail) ==
    /\ query' = QueryOf("recent_deposits", "", fail, recent_deposits(support, deposits, fail))
    /\ UNCHANGED <<support, markets, deposits, lending>>
    /\ UNCHANGED <<identityVars, factoryVars, orderVars>>

GetLendingInfo(coin, fail) ==
    /\ query' = QueryOf("get_lending_info", coin, fail, get_lending_info(coin, fail))
    /\ UNCHANGED <<support, markets, deposits, lending>>
    /\ UNCHANGED <<identityVars, factoryVars, orderVars>>

\* submit_lending_offer(coin, size) -> Result<()>
SubmitLendingOffer(coin, size, fail) ==
    /\ IF fail \/ coin \notin markets
       THEN /\ query' = QueryOf("submit_lending_offer", coin, fail, Err("backend"))
            /\ UNCHANGED lending
       ELSE /\ size <= lending[coin].lendable
            /\ query' = QueryOf("submit_lending_offer", coin, fail, Ok(""))
            /\ lending' = [lending EXCEPT ![coin].offered = size]
    /\ UNCHANGED <<support, markets, deposits>>
    /\ UNCHANGED <<identityVars, factoryVars, orderVars>>

QueriesNext ==
    \/ \E amount \in 1..2 : ExchangeDeposit(amount)
    \/ \E fail \in BOOLEAN : RecentDeposits(fail)
    \/ \E coin \in Coins, fail \in BOOLEAN : GetLendingInfo(coin, fail)
    \/ \E coin \in Coins, size \in 0..MaxLendable, fail \in BOOLEAN :
            SubmitLendingOffer(coin, size, fail)

SpecQueries == QueriesInit /\ [][QueriesNext]_vars

----------------------------------------------------------------------------
(* Claims about the Exchange identity                                      *)

\* The twelve accepted spellings, each with the variant it names.
Twelve ==
    {<<<<"B", "i", "n", "a", "n", "c", "e">>, "Binance">>,
     <<<<"b", "i", "n", "a", "n", "c", "e">>, "Binance">>,
     <<<<"B", "i", "n", "a", "n", "c", "e", "U", "s">>, "BinanceUs">>,
     <<<<"b", "i", "n", "a", "n", "c", "e", "u", "s">>, "BinanceUs">>,
     <<<<"C", "o", "i", "n", "b", "a", "s", "e">>, "Coinbase">>,
     <<<<"c", "o", "i", "n", "b", "a", "s", "e">>, "Coinbase">>,
     <<<<"F", "t", "x">>, "Ftx">>,
     <<<<"f", "t", "x">>, "Ftx">>,
     <<<<"F", "t", "x", "U", "s">>, "FtxUs">>,
     <<<<"f", "t", "x", "u", "s">>, "FtxUs">>,
     <<<<"K", "r", "a", "k", "e", "n">>, "Kraken">>,
     <<<<"k", "r", "a", "k", "e", "n">>, "Kraken">>}

\* The canonical capitalized spelling of each variant.
Canonical(e) == CHOOSE p \in Twelve : p[2] = e /\ p[1][1] = ToUpperChar(p[1][1])

\* C1: from_str accepts exactly the twelve spellings, each parsing to its own
\* variant; every other text is Err(InvalidExchange), never a default variant.
C1_ExactlyTwelve ==
    (parsed # Unparsed /\ displayed = None) =>
        IF \E p \in Twelve : p[1] = input
        THEN \A p \in Twelve : p[1] = input => parsed = Ok(p[2])
        ELSE parsed = Err("InvalidExchange")

\* C1 witness: the lowercase alias of Kraken was parsed to Kraken.
C1_Witness ==
    /\ displayed = None
    /\ input = <<"k", "r", "a", "k", "e", "n">>
    /\ parsed = Ok("Kraken")

\* C2: Display writes the canonical capitalized spelling of the variant, the
\* text it writes parses back to the same variant, and distinct variants are
\* written differently.
C2_DisplayRoundTrip ==
    \A e \in Exchange :
        displayed = Some(e) =>
            /\ input = Canonical(e)[1]
            /\ parsed # Unparsed => parsed = Ok(e)
            /\ \A f \in Exchange \ {e} : Display(f) # input

\* C2 witness: FtxUs was displayed and the text was parsed back.
C2_Witness ==
    /\ displayed = Some("FtxUs")
    /\ input = <<"F", "t", "x", "U", "s">>
    /\ parsed = Ok("FtxUs")

\* C3 as stated: parsing is case-insensitive, every casing of a variant's
\* spelling parses to that variant.
C3_CaseInsensitive ==
    \A e \in Exchange :
        (parsed # Unparsed /\ ToLower(input) = ToLower(DebugName(e))) => parsed = Ok(e)

\* C3 amended: of the casings of a variant's spelling exactly two are accepted,
\* the canonical one and the all-lowercase one, and both parse to that variant;
\* every other casing is Err(InvalidExchange).
C3_TwoCasings ==
    \A e \in Exchange :
        (parsed # Unparsed /\ ToLower(input) = ToLower(DebugName(e))) =>
            IF input = DebugName(e) \/ input = ToLower(input)
            THEN parsed = Ok(e)
            ELSE parsed = Err("InvalidExchange")

\* C3 witness: an all-capitals casing was parsed and rejected.
C3_Witness ==
    /\ input = <<"K", "R", "A", "K", "E", "N">>
    /\ parsed = Err("InvalidExchange")

----------------------------------------------------------------------------
(* Claims about the credential bundle and the client factory               *)

\* The constructor each identity is to reach, as the claims list them.
Expected ==
    [e \in Exchange |->
        CASE e = "Binance" -> <<"binance_exchange", "new">>
          [] e = "BinanceUs" -> <<"binance_exchange", "new_us">>
          [] e = "Coinbase" -> <<"coinbase_exchange", "new">>
          [] e = "Ftx" -> <<"ftx_exchange", "new">>
          [] e = "FtxUs" -> <<"ftx_exchange", "new_us">>
          [] e = "Kraken" -> <<"kraken_exchange", "new">>]

SameFields(a, b) ==
    /\ a.api_key = b.api_key
    /\ a.secret = b.secret
    /\ a.subaccount = b.subaccount

FactoryCalled == last.op = "new"
Calls == last.outcome.calls
Result == last.outcome.result

\* C4: the factory calls the constructor that matches the identity and no
\* other, the US identities reach the Binance and Ftx modules' new_us, and the
\* bundle the constructor receives has the fields of the bundle given.
C4_Dispatch ==
    FactoryCalled =>
        /\ Calls # <<>>
        /\ \A i \in 1..Len(Calls) :
            /\ <<Calls[i].ctor.module, Calls[i].ctor.func>> = Expected[last.exchange]
            /\ SameFields(Calls[i].creds, last.given[1])
        /\ last.exchange \in {"BinanceUs", "FtxUs"} =>
            /\ Calls[1].ctor.func = "new_us"
            /\ Calls[1].ctor.module \in {"binance_exchange", "ftx_exchange"}

\* C4 witness: the factory was called for BinanceUs with a subaccount bundle
\* and the US constructor of the Binance adapter received it.
C4_Witness ==
    /\ FactoryCalled
    /\ last.exchange = "BinanceUs"
    /\ last.given = Some([api_key |-> "key1", secret |-> "secret2", subaccount |-> Some("sub1")])
    /\ Calls = <<Call(Ctor("binance_exchange", "new_us"), last.given[1])>>

\* C5: the factory returns an error exactly when the constructor it selected
\* returns one, and then it is that constructor's error and there is no
\* client; when the constructor succeeds the factory returns Ok with a client.
C5_ErrorIffCtorError ==
    FactoryCalled =>
        LET sel == Calls[1].ctor
        IN  /\ (Result[1] = "Err") <=> (sel \in last.failing)
            /\ (Result[1] = "Ok") <=> (sel \notin last.failing)
            /\ Result[1] = "Err" => Result[2] = [from |-> sel]
            /\ Result[1] = "Ok" => Result[2].ctor = sel

\* C5 witness: the Kraken constructor rejected the bundle and the factory
\* returned its error.
C5_Witness ==
    /\ FactoryCalled
    /\ last.exchange = "Kraken"
    /\ Ctor("kraken_exchange", "new") \in last.failing
    /\ Result = Err([from |-> Ctor("kraken_exchange", "new")])

\* One step of C9: a comparison just made answers whether the three fields
\* agree, and a bundle the caller holds stays as it is or is moved into the
\* factory, whose constructor call and client carry it field for field.
C9_Step ==
    /\ last'.op = "eq" =>
        (last'.eq <=> SameFields(bundles'[1][1], bundles'[2][1]))
    /\ \A s \in Slots :
        bundles[s] # None =>
            \/ bundles'[s] = bundles[s]
            \/ /\ bundles'[s] = None
               /\ last'.op = "new"
               /\ last'.given = bundles[s]
               /\ \A i \in 1..Len(last'.outcome.calls) :
                    SameFields(last'.outcome.calls[i].creds, bundles[s][1])
               /\ last'.outcome.result[1] = "Ok" =>
                    SameFields(last'.outcome.result[2].creds, bundles[s][1])

\* C9: two bundles compare equal exactly when their api_key, secret and
\* subaccount are all equal, and no step of the core (parsing, display,
\* comparison, the factory) changes a field of a bundle.
C9_EqualityAndImmutability == [][C9_Step]_vars

\* C9 witness: two bundles that differ only in the subaccount (None against
\* the empty text) were compared and found unequal, and an Exchange was
\* displayed and parsed back while the caller held them.
C9_Witness ==
    /\ last.op = "eq"
    /\ displayed = Some("Kraken")
    /\ parsed = Ok("Kraken")
    /\ ~last.eq
    /\ bundles[1] = Some([api_key |-> "key1", secret |-> "secret1", subaccount |-> None])
    /\ bundles[2] = Some([api_key |-> "key1", secret |-> "secret1", subaccount |-> Some("")])

\* The Result the claim expects of a factory call: a function of the
\* identity, the bundle and the outcome of the identity's own constructor.
ExpectedResult(e, creds, ctorFails) ==
    LET c == Ctor(Expected[e][1], Expected[e][2])
    IN  IF ctorFails THEN Err([from |-> c]) ELSE Ok([ctor |-> c, creds |-> creds])

\* C10: a factory call makes exactly one constructor call; a failing
\* constructor is not retried and no other adapter is tried; the result is
\* decided by the identity, the bundle and that constructor's outcome alone.
C10_OneCtorOnce ==
    FactoryCalled =>
        /\ Len(Calls) = 1
        /\ Result = ExpectedResult(last.exchange, last.given[1],
                                   Ctor(Expected[last.exchange][1],
                                        Expected[last.exchange][2]) \in last.failing)

\* C10 witness: the BinanceUs constructor failed, it was called once, no other
\* constructor was called and the factory returned its error.
C10_Witness ==
    /\ FactoryCalled
    /\ last.exchange = "BinanceUs"
    /\ last.failing = {Ctor("binance_exchange", "new_us")}
    /\ Len(Calls) = 1
    /\ Result[1] = "Err"

----------------------------------------------------------------------------
(* Claims about orders                                                     *)

StatusReported == status.op = "order_status" /\ status.result[1] = "Ok"
Submitted(id) == OrderStatus(TRUE, sent[id].side, sent[id].price, sent[id].amount, 0)

\* C6: an order is open until it is filled or cancelled and never open again:
\* once order_status has reported an id closed, no later order_status of that
\* id reports it open; a closed order is full or was cancelled; and the
\* filled amount never exceeds the requested amount, in the book or in any
\* status reported.
C6_ClosedIsTerminal ==
    /\ \A id \in 1..Len(book) :
        /\ book[id].order.filled_amount <= book[id].order.amount
        /\ closedSeen[id] > 0 => ~book[id].order.open
        /\ ~book[id].order.open =>
            \/ book[id].order.filled_amount = book[id].order.amount
            \/ id \in touched
    /\ StatusReported =>
        /\ status.result[2].filled_amount <= status.result[2].amount
        /\ status.result[2].open => closedSeen[status.id] = 0

\* C6 witness: an order was partly filled, then cancelled, and order_status
\* has reported it closed more than once.
C6_Witness ==
    /\ StatusReported
    /\ closedSeen[status.id] = 2
    /\ ~status.result[2].open
    /\ status.result[2].filled_amount = 1
    /\ status.result[2].amount = 2

----------------------------------------------------------------------------
(* Claims about the optional-capability queries                            *)

IsPrefix(s, u) == Len(s) <= Len(u) /\ SubSeq(u, 1, Len(s)) = s

\* C8: recent_deposits and get_lending_info keep three outcomes apart: an
\* adapter without deposit history, or a coin without a lending market, gives
\* Ok(None) and never an error, an empty list or a zeroed LendingInfo; a
\* supported query gives Ok(Some(..)), with an empty list when nothing was
\* found; a backend failure gives Err.
C8_ThreeOutcomes ==
    /\ query.op = "recent_deposits" =>
        /\ ~support => query.result = Ok(None)
        /\ (support /\ query.failed) => query.result[1] = "Err"
        /\ (support /\ ~query.failed) =>
            /\ query.result[1] = "Ok"
            /\ query.result[2] # None
            /\ Len(query.result[2]) = 1
            /\ IsPrefix(query.result[2][1], deposits)
    /\ query.op = "get_lending_info" =>
        /\ query.failed => query.result[1] = "Err"
        /\ (~query.failed /\ query.coin \notin markets) => query.result = Ok(None)
        /\ (~query.failed /\ query.coin \in markets) =>
            query.result = Ok(Some(lending[query.coin]))
    /\ Ok(None) # Ok(Some(<<>>))
    /\ Ok(None) # Ok(Some(LendingInfo(0, 0)))

\* C8 witness: an adapter with deposit history found no deposit and answered
\* with the empty list.
C8_Witness ==
    /\ query.op = "recent_deposits"
    /\ support
    /\ ~query.failed
    /\ query.result = Ok(Some(<<>>))

====
